---- MODULE Spec2Model ----
(***************************************************************************)
(* Model of the manju_agent orchestration core: the LangGraph workflow of  *)
(* graph.py (character_extractor -> screenwriter -> storyboard ->          *)
(* sound_designer -> [human_reviewer] -> director -> END, with the         *)
(* director's and the human's rejections routed back to a draft stage),    *)
(* the node functions of agents/*.py and the tail of main.py that consumes *)
(* the final state of a single-segment run.                                *)
(*                                                                         *)
(* The LLM and the console are the environment: every response an LLM call *)
(* can return (parsable or not) and every menu choice of the human is an   *)
(* input drawn with \E from a bounded set.                                 *)
(***************************************************************************)
EXTENDS Integers, Sequences, FiniteSets, TLC

\* ------------------------------------------------------------------ bounds
\* Largest configured ceiling MAX_REVISIONS explored (config.py reads it from
\* the environment; its default is DEFAULT_MAX_REVISIONS).
MaxCeiling == 2

\* Longest scene list a parsable draft response carries.
MaxScenes == 1

\* Longest feedback list a parsable director response carries.
MaxFeedback == 2

\* Most chunks split_into_chunks hands to main().
MaxChunks == 2

\* Longest text handed to split_into_chunks, in pieces (a letter, a sentence
\* end, a paragraph break or a divider line).
MaxPieces == 5

\* Largest chunk_size and largest overlap handed to split_into_chunks.
MaxChunkSize == 6

MaxOverlap == 2

\* -------------------------------------------------------- program constants
\* config.py: MAX_REVISIONS = int(os.getenv("MAX_REVISIONS", "3"))
DEFAULT_MAX_REVISIONS == 3

\* Ghost counters saturate here, strictly above every value the code allows.
RunCap == MaxCeiling + DEFAULT_MAX_REVISIONS + 3

VARIABLES
    MAX_REVISIONS,   \* config.MAX_REVISIONS, fixed for the run
    HUMAN_REVIEW,    \* the name HUMAN_REVIEW that graph.py and human_reviewer.py
                     \* imported from config when they were loaded
    config_HUMAN_REVIEW, \* the attribute HUMAN_REVIEW of the config module
    state,           \* the WorkflowState threaded through the graph
    node,            \* the node LangGraph executes next ("END" once the run is over)
    pc,              \* main(): "workflow", then "done" or "TypeError"
    prev,            \* ghost: the node that executed last
    last_path,       \* ghost: the return path the last director_node execution took
    director_runs,   \* ghost: number of director_node executions
    reviewer_calls,  \* ghost: number of llm.invoke calls made by director_node
    rejections,      \* ghost: number of reviewer consultations answered by a rejection
                     \*        that names a draft stage
    human_prompts,   \* ghost: number of times human_reviewer_node showed its prompt
    sound_runs,      \* ghost: number of sound_designer_node executions
    chunks,          \* main(): len(chunks)
    chunk_states,    \* main(): the states run_single_chunk returned so far
    scene_offset,    \* main(): the offset the next chunk's scene numbers get
    final_state,     \* main(): the state that is summarised and saved
    log,             \* main(): what the merge step printed
    invoked,         \* ghost: the states workflow.invoke returned, before offsetting
    parsed,          \* ghost: whether the response the last executed node read parsed
    running,         \* main(): the run_single_chunk call in progress, if any
    report,          \* main(): what the except handler's error report names
    failure,         \* ghost: the chunk and the stage whose LLM call raised
    text,            \* split_into_chunks: the text argument
    chunk_size,      \* split_into_chunks: the chunk_size argument
    overlap,         \* split_into_chunks: the overlap argument
    result           \* split_into_chunks: the returned list

vars == <<MAX_REVISIONS, HUMAN_REVIEW, config_HUMAN_REVIEW, state, node, pc, prev,
          last_path, director_runs, reviewer_calls, rejections, human_prompts, sound_runs,
          chunks, chunk_states, scene_offset, final_state, log, invoked,
          parsed, running, report, failure, text, chunk_size, overlap, result>>

\* ------------------------------------------------------------------ helpers
Min(a, b) == IF a < b THEN a ELSE b

Bump(n) == Min(n + 1, RunCap)

\* Sequences over S of length at most n.
SeqUpTo(S, n) == UNION {[1..k -> S] : k \in 0..n}

\* Those of them that repeat no element.
DistinctSeqUpTo(S, n) ==
    {q \in SeqUpTo(S, n) : \A i, j \in 1..Len(q) : q[i] = q[j] => i = j}

\* LangGraph merges the dict a node returns into the state: the keys the node
\* returns are overwritten, every other key is kept.
Merge(s, update) ==
    [k \in DOMAIN s |-> IF k \in DOMAIN update THEN update[k] ELSE s[k]]

\* The three draft stages, in chain order.
DraftStages == {"screenwriter", "storyboard", "sound_designer"}

\* final_script is Optional[str]: None, or the rendered text.
NoScript == [present |-> FALSE, scenes |-> <<>>, count |-> 0]

\* ------------------------------------------------------------------- state.py / main.py
build_initial_state ==
    [ novel_text          |-> "chunk",
      novel_type          |-> "novel_type",
      character_sheet     |-> "None",
      screenplay_scenes   |-> <<>>,
      storyboard_scenes   |-> <<>>,
      sound_scenes        |-> <<>>,
      director_feedback   |-> <<>>,
      revision_target     |-> "None",
      revision_count      |-> 0,
      skip_human_review   |-> FALSE,
      human_review_target |-> "director",
      is_approved         |-> FALSE,
      final_script        |-> NoScript ]

\* ------------------------------------------------------------ LLM responses
\* A draft stage's LLM response: unparsable (ok = FALSE), or a JSON list of
\* n >= 1 scenes numbered 1..n.
Scene(n) == [scene_number |-> n, diagnostic |-> FALSE]

Numbered(n) == [i \in 1..n |-> Scene(i)]

SceneResponses ==
    {[ok |-> FALSE, scenes |-> <<>>]}
    \cup {[ok |-> TRUE, scenes |-> Numbered(n)] : n \in 1..MaxScenes}

\* The character extractor's LLM response: unparsable, or a character sheet.
SheetResponses == {[ok |-> FALSE, sheet |-> "None"], [ok |-> TRUE, sheet |-> "sheet"]}

\* The director's LLM response: unparsable, or a JSON object whose "decision"
\* key is APPROVE, absent, or anything else ("REVISE": director_node takes
\* its else branch on every value but APPROVE) and whose "feedbacks" name
\* target agents, each agent in at most one item, in any order; "director"
\* stands for every target_agent that is not a draft stage. The feedbacks of
\* an approving response are never read.
TargetAgents == DraftStages \cup {"director"}

Feedback(agent) == [target_agent |-> agent]

FeedbackLists == DistinctSeqUpTo({Feedback(a) : a \in TargetAgents}, MaxFeedback)

DirectorResponses ==
    {[ok |-> FALSE, decision |-> "absent", feedbacks |-> <<>>]}
    \cup {[ok |-> TRUE, decision |-> d, feedbacks |-> f] :
            d \in {"APPROVE", "absent"}, f \in SeqUpTo({Feedback("screenwriter")}, 1)}
    \cup {[ok |-> TRUE, decision |-> "REVISE", feedbacks |-> f] : f \in FeedbackLists}

\* ---------------------------------------------------- agents/character_extractor.py
character_extractor_node(s, response) ==
    IF response.ok
    THEN [character_sheet |-> response.sheet]
    ELSE [character_sheet |-> "empty_sheet"]

\* ------------------------------------------------------------ agents/screenwriter.py
\* The parse-failure placeholder: one scene numbered 0 carrying the diagnostic.
PlaceholderScene == [scene_number |-> 0, diagnostic |-> TRUE]

\* Mutant: a new screenplay discards the storyboards drawn for the old one.
ScreenwriterClearsStoryboard(s, response) ==
    [ screenplay_scenes |->
        IF response.ok THEN response.scenes ELSE <<PlaceholderScene>>,
      storyboard_scenes |-> <<>> ]

\* Mutant: a parse failure leaves no scene at all.
ScreenwriterFailsEmpty(s, response) ==
    [screenplay_scenes |->
        IF response.ok THEN response.scenes ELSE <<>>]

screenwriter_node(s, response) ==
    [screenplay_scenes |->
        IF response.ok THEN response.scenes ELSE <<PlaceholderScene>>]

\* -------------------------------------------------------------- agents/storyboard.py
storyboard_node(s, response) ==
    [storyboard_scenes |->
        IF response.ok THEN response.scenes ELSE <<PlaceholderScene>>]

\* ---------------------------------------------------------- agents/sound_designer.py
sound_designer_node(s, response) ==
    [sound_scenes |->
        IF response.ok THEN response.scenes ELSE <<PlaceholderScene>>]

\* ---------------------------------------------------------------- agents/director.py
\* The scene numbers a scene list indexes ({s["scene_number"]: s for s in ...}).
SceneNumbers(scenes) == {scenes[i].scene_number : i \in 1..Len(scenes)}

\* The rendered script: one entry per screenplay scene, in list order, with the
\* storyboard and the sound record attached when one carries the same number.
_format_final_script(s) ==
    [ present |-> TRUE,
      scenes  |-> [i \in 1..Len(s.screenplay_scenes) |->
                    [ scene_number |-> s.screenplay_scenes[i].scene_number,
                      storyboard   |-> s.screenplay_scenes[i].scene_number
                                         \in SceneNumbers(s.storyboard_scenes),
                      sound        |-> s.screenplay_scenes[i].scene_number
                                         \in SceneNumbers(s.sound_scenes) ]],
      count   |-> Len(s.screenplay_scenes) ]

\* targets = {fb["target_agent"] for fb in feedbacks}
Targets(feedbacks) == {feedbacks[i].target_agent : i \in 1..Len(feedbacks)}

\* Mutant: the sound designer is tested before the storyboard.
PrimaryTargetSoundFirst(feedbacks) ==
    IF "screenwriter" \in Targets(feedbacks) THEN "screenwriter"
    ELSE IF "sound_designer" \in Targets(feedbacks) THEN "sound_designer"
    ELSE IF "storyboard" \in Targets(feedbacks) THEN "storyboard"
    ELSE "approved"

_determine_primary_revision_target(feedbacks) ==
    IF "screenwriter" \in Targets(feedbacks) THEN "screenwriter"
    ELSE IF "storyboard" \in Targets(feedbacks) THEN "storyboard"
    ELSE IF "sound_designer" \in Targets(feedbacks) THEN "sound_designer"
    ELSE "approved"

\* revision_count = state.get("revision_count", 0) + 1
NextRevisionCount(s) == s.revision_count + 1

\* Mutant: the ceiling is tested one revision too late.
CeilingExceededLate(revision_count) == revision_count > MAX_REVISIONS + 1

\* Mutant: the ceiling is tested with >= instead of >.
CeilingExceededEarly(revision_count) == revision_count >= MAX_REVISIONS

\* if revision_count > MAX_REVISIONS
CeilingExceeded(revision_count) == revision_count > MAX_REVISIONS

\* decision = decision_data.get("decision", "APPROVE")
Decision(response) ==
    IF response.decision = "absent" THEN "APPROVE" ELSE response.decision

\* Mutant: the forced approval returns the count it read, not the incremented one.
ForcedApprovalStaleCount(s, revision_count) ==
    [ revision_target   |-> "approved",
      is_approved       |-> TRUE,
      revision_count    |-> s.revision_count,
      director_feedback |-> <<>>,
      final_script      |-> _format_final_script(s) ]

\* Mutant: the forced approval leaves the last feedback in place.
ForcedApprovalKeepsFeedback(s, revision_count) ==
    [ revision_target   |-> "approved",
      is_approved       |-> TRUE,
      revision_count    |-> revision_count,
      director_feedback |-> s.director_feedback,
      final_script      |-> _format_final_script(s) ]

\* The four return statements of director_node.
ForcedApproval(s, revision_count) ==
    [ revision_target   |-> "approved",
      is_approved       |-> TRUE,
      revision_count    |-> revision_count,
      director_feedback |-> <<>>,
      final_script      |-> _format_final_script(s) ]

\* Mutant: an unparsable response sends the run back to the screenwriter.
ParseFailureRejects(s, revision_count) ==
    [ revision_target   |-> "screenwriter",
      is_approved       |-> FALSE,
      revision_count    |-> revision_count,
      director_feedback |-> <<>> ]

ParseFailureApproval(s, revision_count) ==
    [ revision_target   |-> "approved",
      is_approved       |-> TRUE,
      revision_count    |-> revision_count,
      director_feedback |-> <<>>,
      final_script      |-> _format_final_script(s) ]

\* Mutant: an approval leaves the last feedback in place.
ApprovalKeepsFeedback(s, revision_count) ==
    [ revision_target   |-> "approved",
      is_approved       |-> TRUE,
      revision_count    |-> revision_count,
      director_feedback |-> s.director_feedback,
      final_script      |-> _format_final_script(s) ]

Approval(s, revision_count) ==
    [ revision_target   |-> "approved",
      is_approved       |-> TRUE,
      revision_count    |-> revision_count,
      director_feedback |-> <<>>,
      final_script      |-> _format_final_script(s) ]

\* Mutant: a rejection re-opens the human checkpoint.
RevisionResetsSkip(s, revision_count, feedbacks) ==
    [ revision_target   |-> _determine_primary_revision_target(feedbacks),
      is_approved       |-> FALSE,
      revision_count    |-> revision_count,
      director_feedback |-> feedbacks,
      skip_human_review |-> FALSE ]

\* Mutant: a rejection does not return the incremented count.
RevisionKeepsCount(s, revision_count, feedbacks) ==
    [ revision_target   |-> _determine_primary_revision_target(feedbacks),
      is_approved       |-> FALSE,
      director_feedback |-> feedbacks ]

Revision(s, revision_count, feedbacks) ==
    [ revision_target   |-> _determine_primary_revision_target(feedbacks),
      is_approved       |-> FALSE,
      revision_count    |-> revision_count,
      director_feedback |-> feedbacks ]

\* Which return statement director_node reaches on this state and response.
DirectorPath(s, response) ==
    IF CeilingExceeded(NextRevisionCount(s)) THEN "forced"
    ELSE IF ~response.ok THEN "parse_failure"
    ELSE IF Decision(response) = "APPROVE" THEN "approve"
    ELSE "revise"

director_node(s, response) ==
    CASE DirectorPath(s, response) = "forced" ->
            ForcedApproval(s, NextRevisionCount(s))
      [] DirectorPath(s, response) = "parse_failure" ->
            ParseFailureApproval(s, NextRevisionCount(s))
      [] DirectorPath(s, response) = "approve" ->
            Approval(s, NextRevisionCount(s))
      [] OTHER ->
            Revision(s, NextRevisionCount(s), response.feedbacks)

\* ---------------------------------------------------------- agents/human_reviewer.py
\* The menu input: "0".."3", or any other text ("other"; the plain-console
\* prompt accepts it, the rich prompt does not).
Choices == {"0", "1", "2", "3", "other"}

\* (target, feedbacks) of _get_user_decision.
_get_user_decision(choice) ==
    IF choice = "0" THEN [target |-> "director", feedbacks |-> <<>>]
    ELSE LET target == CASE choice = "1" -> "screenwriter"
                         [] choice = "2" -> "storyboard"
                         [] choice = "3" -> "sound_designer"
                         [] OTHER        -> "director"
         IN  [target |-> target, feedbacks |-> <<Feedback(target)>>]

\* human_reviewer_node reaches _display_full_draft and _get_user_decision only
\* past its two early returns.
ShowsPrompt(s) == HUMAN_REVIEW /\ ~s.skip_human_review

\* Mutant: a human rejection uses up one revision.
HumanRejectionCounted(s, choice) ==
    IF ~HUMAN_REVIEW
    THEN [human_review_target |-> "director", skip_human_review |-> FALSE]
    ELSE IF s.skip_human_review
    THEN [human_review_target |-> "director", skip_human_review |-> TRUE]
    ELSE IF _get_user_decision(choice).target = "director"
    THEN [ human_review_target |-> "director",
           skip_human_review   |-> FALSE,
           director_feedback   |-> <<>> ]
    ELSE [ human_review_target |-> _get_user_decision(choice).target,
           skip_human_review   |-> TRUE,
           revision_count      |-> s.revision_count + 1,
           director_feedback   |-> _get_user_decision(choice).feedbacks ]

\* Mutant: a human rejection does not set skip_human_review.
HumanReviewerNeverSkips(s, choice) ==
    IF ~HUMAN_REVIEW
    THEN [human_review_target |-> "director", skip_human_review |-> FALSE]
    ELSE IF s.skip_human_review
    THEN [human_review_target |-> "director", skip_human_review |-> TRUE]
    ELSE IF _get_user_decision(choice).target = "director"
    THEN [ human_review_target |-> "director",
           skip_human_review   |-> FALSE,
           director_feedback   |-> <<>> ]
    ELSE [ human_review_target |-> _get_user_decision(choice).target,
           skip_human_review   |-> FALSE,
           director_feedback   |-> _get_user_decision(choice).feedbacks ]

human_reviewer_node(s, choice) ==
    IF ~HUMAN_REVIEW
    THEN [human_review_target |-> "director", skip_human_review |-> FALSE]
    ELSE IF s.skip_human_review
    THEN [human_review_target |-> "director", skip_human_review |-> TRUE]
    ELSE IF _get_user_decision(choice).target = "director"
    THEN [ human_review_target |-> "director",
           skip_human_review   |-> FALSE,
           director_feedback   |-> <<>> ]
    ELSE [ human_review_target |-> _get_user_decision(choice).target,
           skip_human_review   |-> TRUE,
           director_feedback   |-> _get_user_decision(choice).feedbacks ]

\* --------------------------------------------------------------------------- graph.py
\* Mutant: the route does not read skip_human_review.
RouteIgnoresSkip(s) ==
    IF ~HUMAN_REVIEW THEN "director" ELSE "human_reviewer"

route_after_sound_designer(s) ==
    IF ~HUMAN_REVIEW \/ s.skip_human_review THEN "director" ELSE "human_reviewer"

\* Mutant: the route does not read human_review_target.
RouteHumanAlwaysDirector(s) == "director"

route_after_human_reviewer(s) == s.human_review_target

\* Mutant: every rejection is routed to the screenwriter.
RouteAfterDirectorToScreenwriter(s) ==
    IF s.revision_target = "approved" THEN "end" ELSE "screenwriter"

route_after_director(s) ==
    IF s.revision_target = "approved" THEN "end"
    ELSE IF s.revision_target = "screenwriter" THEN "screenwriter"
    ELSE IF s.revision_target = "storyboard" THEN "storyboard"
    ELSE IF s.revision_target = "sound_designer" THEN "sound_designer"
    ELSE "screenwriter"

\* Mutant: a rejection of the screenplay restarts at the entry point.
DirectorEdgeRestarts(route) ==
    IF route = "end" THEN "END"
    ELSE IF route = "screenwriter" THEN "character_extractor" ELSE route

\* The path map of add_conditional_edges("director", ...): "end" is END.
DirectorEdge(route) == IF route = "end" THEN "END" ELSE route

\* final_state before main() assigns it.
Unassigned == [assigned |-> FALSE]

\* No run_single_chunk call is in progress.
NoCall == [chunk |-> 0, scene_offset |-> 0]

\* No LLM call has raised.
NoFailure == [chunk |-> 0, stage |-> "none"]

\* ------------------------------------------------------------------- the run
\* main() with an input no longer than CHUNK_SIZE: one chunk, one workflow run
\* from build_initial_state, entered at character_extractor.
Start ==
    /\ HUMAN_REVIEW \in BOOLEAN
    /\ config_HUMAN_REVIEW = HUMAN_REVIEW
    /\ state = build_initial_state
    /\ node = "character_extractor"
    /\ pc = "workflow"
    /\ prev = "START"
    /\ last_path = "none"
    /\ director_runs = 0
    /\ reviewer_calls = 0
    /\ rejections = 0
    /\ human_prompts = 0
    /\ sound_runs = 0
    /\ chunks = 1
    /\ chunk_states = <<>>
    /\ scene_offset = 0
    /\ final_state = Unassigned
    /\ log = <<>>
    /\ invoked = <<>>
    /\ parsed = TRUE
    /\ running = NoCall
    /\ report = {}
    /\ failure = NoFailure
    /\ text = <<>>
    /\ chunk_size = 1
    /\ overlap = 0
    /\ result = <<>>

\* Every ceiling up to MaxCeiling.
Init == MAX_REVISIONS \in 0..MaxCeiling /\ Start

\* The ceiling config.py sets when the environment names none.
InitDefault == MAX_REVISIONS = DEFAULT_MAX_REVISIONS /\ Start

Config == <<MAX_REVISIONS, HUMAN_REVIEW, config_HUMAN_REVIEW>>

DirectorGhosts == <<last_path, director_runs, reviewer_calls, rejections>>

MainLoop == <<chunks, chunk_states, scene_offset, final_state, log, invoked,
              running, report, failure>>

Chunker == <<text, chunk_size, overlap, result>>

\* workflow.add_edge("character_extractor", "screenwriter")
CharacterExtractor ==
    /\ pc = "workflow" /\ node = "character_extractor"
    /\ \E response \in SheetResponses :
         /\ state' = Merge(state, character_extractor_node(state, response))
         /\ parsed' = response.ok
    /\ node' = "screenwriter"
    /\ prev' = "character_extractor"
    /\ UNCHANGED <<Config, pc, DirectorGhosts, human_prompts, sound_runs, MainLoop,
                   Chunker>>

\* workflow.add_edge("screenwriter", "storyboard")
Screenwriter ==
    /\ pc = "workflow" /\ node = "screenwriter"
    /\ \E response \in SceneResponses :
         /\ state' = Merge(state, screenwriter_node(state, response))
         /\ parsed' = response.ok
    /\ node' = "storyboard"
    /\ prev' = "screenwriter"
    /\ UNCHANGED <<Config, pc, DirectorGhosts, human_prompts, sound_runs, MainLoop,
                   Chunker>>

\* Mutant: the storyboard's outgoing edge leads to the director.
StoryboardSkipsSound ==
    /\ pc = "workflow" /\ node = "storyboard"
    /\ \E response \in SceneResponses :
         /\ state' = Merge(state, storyboard_node(state, response))
         /\ parsed' = response.ok
    /\ node' = "director"
    /\ prev' = "storyboard"
    /\ UNCHANGED <<Config, pc, DirectorGhosts, human_prompts, sound_runs, MainLoop,
                   Chunker>>

\* workflow.add_edge("storyboard", "sound_designer")
Storyboard ==
    /\ pc = "workflow" /\ node = "storyboard"
    /\ \E response \in SceneResponses :
         /\ state' = Merge(state, storyboard_node(state, response))
         /\ parsed' = response.ok
    /\ node' = "sound_designer"
    /\ prev' = "storyboard"
    /\ UNCHANGED <<Config, pc, DirectorGhosts, human_prompts, sound_runs, MainLoop,
                   Chunker>>

\* add_conditional_edges("sound_designer", route_after_sound_designer, ...)
SoundDesigner ==
    /\ pc = "workflow" /\ node = "sound_designer"
    /\ \E response \in SceneResponses :
         /\ state' = Merge(state, sound_designer_node(state, response))
         /\ parsed' = response.ok
    /\ sound_runs' = Bump(sound_runs)
    /\ node' = route_after_sound_designer(state')
    /\ prev' = "sound_designer"
    /\ UNCHANGED <<Config, pc, DirectorGhosts, human_prompts, MainLoop, Chunker>>

\* add_conditional_edges("human_reviewer", route_after_human_reviewer, ...)
HumanReviewer ==
    /\ pc = "workflow" /\ node = "human_reviewer"
    /\ \E choice \in Choices :
         state' = Merge(state, human_reviewer_node(state, choice))
    /\ parsed' = TRUE
    /\ human_prompts' = IF ShowsPrompt(state) THEN Bump(human_prompts) ELSE human_prompts
    /\ node' = route_after_human_reviewer(state')
    /\ prev' = "human_reviewer"
    /\ UNCHANGED <<Config, pc, DirectorGhosts, sound_runs, MainLoop, Chunker>>

\* add_conditional_edges("director", route_after_director, ...); the response is
\* read only on the paths that call llm.invoke.
Director ==
    /\ pc = "workflow" /\ node = "director"
    /\ \E response \in DirectorResponses :
         /\ state' = Merge(state, director_node(state, response))
         /\ last_path' = DirectorPath(state, response)
         /\ parsed' = (DirectorPath(state, response) # "parse_failure")
         /\ reviewer_calls' =
              IF DirectorPath(state, response) = "forced"
              THEN reviewer_calls ELSE Bump(reviewer_calls)
         /\ rejections' =
              IF /\ DirectorPath(state, response) = "revise"
                 /\ Targets(response.feedbacks) \cap DraftStages # {}
              THEN Bump(rejections) ELSE rejections
    /\ director_runs' = Bump(director_runs)
    /\ node' = DirectorEdge(route_after_director(state'))
    /\ prev' = "director"
    /\ UNCHANGED <<Config, pc, human_prompts, sound_runs, MainLoop, Chunker>>

\* The tail of main() after workflow.invoke returned: final_state is the only
\* chunk state; unless --no-save, save_results writes final_script with
\* Path.write_text, which raises TypeError on None.
SaveResults ==
    /\ pc = "workflow" /\ node = "END"
    /\ \E no_save \in BOOLEAN :
         pc' = IF ~no_save /\ ~state.final_script.present THEN "TypeError" ELSE "done"
    /\ UNCHANGED <<Config, state, node, prev, DirectorGhosts, human_prompts,
                   sound_runs, parsed, MainLoop, Chunker>>

Next ==
    \/ CharacterExtractor
    \/ Screenwriter
    \/ Storyboard
    \/ SoundDesigner
    \/ HumanReviewer
    \/ Director
    \/ SaveResults

Spec == Init /\ [][Next]_vars

SpecDefault == InitDefault /\ [][Next]_vars

\* Every stage call returns: a pending step of the run is eventually taken.
FairSpec == Spec /\ WF_vars(Next)

\* ------------------------------------------------ main(): the loop over chunks
\* A draft stage's answer in a multi-chunk run: as in SceneResponses, or an
\* empty JSON list, which parses to no scene at all.
ChunkSceneResponses == SceneResponses \cup {[ok |-> TRUE, scenes |-> <<>>]}

\* The reviewer's answer in a multi-chunk run: APPROVE, or REVISE without
\* feedback.
Verdicts ==
    {r \in DirectorResponses :
        r.ok /\ r.decision \in {"APPROVE", "REVISE"} /\ r.feedbacks = <<>>}

\* The drafts are nominal: all three parse, to lists of one length.
NominalDrafts(oracle) ==
    /\ oracle.screenwriter.ok
    /\ oracle.storyboard = oracle.screenwriter
    /\ oracle.sound_designer = oracle.screenwriter

\* What the LLM and the console answer during one workflow run: each node gets
\* the same answer on every visit of the run. The three drafts vary freely
\* under a parsable character sheet and an approval; an unparsable character
\* sheet and a REVISE come with nominal drafts, and not together.
Oracles ==
    {oracle \in [ character_extractor : SheetResponses,
                  screenwriter        : ChunkSceneResponses,
                  storyboard          : ChunkSceneResponses,
                  sound_designer      : ChunkSceneResponses,
                  human_reviewer      : {"0"},
                  director            : Verdicts ] :
        \/ oracle.character_extractor.ok /\ oracle.director.decision = "APPROVE"
        \/ /\ NominalDrafts(oracle)
           /\ oracle.character_extractor.ok \/ oracle.director.decision = "APPROVE"}

\* workflow.invoke: the compiled graph runs node n on state s, merges the
\* returned update and follows the edge, until END.
RECURSIVE workflow_invoke(_, _, _)
workflow_invoke(s, n, oracle) ==
    IF n = "character_extractor"
    THEN workflow_invoke(
           Merge(s, character_extractor_node(s, oracle.character_extractor)),
           "screenwriter", oracle)
    ELSE IF n = "screenwriter"
    THEN workflow_invoke(
           Merge(s, screenwriter_node(s, oracle.screenwriter)),
           "storyboard", oracle)
    ELSE IF n = "storyboard"
    THEN workflow_invoke(
           Merge(s, storyboard_node(s, oracle.storyboard)),
           "sound_designer", oracle)
    ELSE IF n = "sound_designer"
    THEN LET t == Merge(s, sound_designer_node(s, oracle.sound_designer))
         IN  workflow_invoke(t, route_after_sound_designer(t), oracle)
    ELSE IF n = "human_reviewer"
    THEN LET t == Merge(s, human_reviewer_node(s, oracle.human_reviewer))
         IN  workflow_invoke(t, route_after_human_reviewer(t), oracle)
    ELSE IF n = "director"
    THEN LET t == Merge(s, director_node(s, oracle.director))
         IN  workflow_invoke(t, DirectorEdge(route_after_director(t)), oracle)
    ELSE s

\* scene["scene_number"] = scene["scene_number"] + scene_offset, for every
\* scene of the list.
Offset(scenes, offset) ==
    [i \in 1..Len(scenes) |->
        [scenes[i] EXCEPT !.scene_number = @ + offset]]

\* The states workflow.invoke(initial_state) can return.
InvokeResults ==
    {workflow_invoke(build_initial_state, "character_extractor", oracle) :
        oracle \in Oracles}

\* Mutant: only the screenplay scenes are renumbered.
RunSingleChunkOffsetsScreenplayOnly(final, offset) ==
    IF offset > 0
    THEN [final EXCEPT
            !.screenplay_scenes = Offset(@, offset)]
    ELSE final

\* run_single_chunk once workflow.invoke has returned final.
run_single_chunk(final, offset) ==
    IF offset > 0
    THEN [final EXCEPT
            !.screenplay_scenes = Offset(@, offset),
            !.storyboard_scenes = Offset(@, offset),
            !.sound_scenes      = Offset(@, offset)]
    ELSE final

\* The list a loop of extend calls builds from one key of every state.
RECURSIVE Extend(_, _)
Extend(states, key) ==
    IF states = <<>> THEN <<>>
    ELSE states[1][key] \o Extend(Tail(states), key)

\* max(s.get("revision_count", 0) for s in chunk_states)
RECURSIVE MaxRevisionCount(_)
MaxRevisionCount(states) ==
    IF Len(states) = 1 THEN states[1].revision_count
    ELSE LET rest == MaxRevisionCount(Tail(states))
         IN  IF states[1].revision_count > rest
             THEN states[1].revision_count ELSE rest

\* The merged dict before final_script is rendered.
Merged(states, approved) ==
    [ novel_text          |-> [i \in 1..Len(states) |-> states[i].novel_text],
      novel_type          |-> "novel_type",
      character_sheet     |-> states[1].character_sheet,
      screenplay_scenes   |-> Extend(states, "screenplay_scenes"),
      storyboard_scenes   |-> Extend(states, "storyboard_scenes"),
      sound_scenes        |-> Extend(states, "sound_scenes"),
      director_feedback   |-> <<>>,
      revision_target     |-> "approved",
      revision_count      |-> MaxRevisionCount(states),
      skip_human_review   |-> TRUE,
      human_review_target |-> "director",
      is_approved         |-> approved,
      final_script        |-> NoScript ]

\* Mutant: the merged state is approved only if every chunk's state is.
MergeKeepsApprovalFlags(states) ==
    LET merged == Merged(states, \A i \in 1..Len(states) : states[i].is_approved)
    IN  [merged EXCEPT !.final_script = _format_final_script(merged)]

merge_chunk_results(states) ==
    LET merged == Merged(states, TRUE)
    IN  [merged EXCEPT !.final_script = _format_final_script(merged)]

\* main() under config.py's defaults (MAX_REVISIONS 3, HUMAN_REVIEW off) with
\* an input that split_into_chunks cut into 1..MaxChunks chunks.
InitMain ==
    /\ MAX_REVISIONS = DEFAULT_MAX_REVISIONS
    /\ HUMAN_REVIEW = FALSE
    /\ config_HUMAN_REVIEW = HUMAN_REVIEW
    /\ state = build_initial_state
    /\ node = "character_extractor"
    /\ pc = "chunks"
    /\ prev = "START"
    /\ last_path = "none"
    /\ director_runs = 0
    /\ reviewer_calls = 0
    /\ rejections = 0
    /\ human_prompts = 0
    /\ sound_runs = 0
    /\ chunks \in 1..MaxChunks
    /\ chunk_states = <<>>
    /\ scene_offset = 0
    /\ final_state = Unassigned
    /\ log = <<>>
    /\ invoked = <<>>
    /\ parsed = TRUE
    /\ running = NoCall
    /\ report = {}
    /\ failure = NoFailure
    /\ text = <<>>
    /\ chunk_size = 1
    /\ overlap = 0
    /\ result = <<>>

WorkflowRun == <<state, node, prev, DirectorGhosts, human_prompts, sound_runs, parsed>>

\* The nodes that call llm.invoke.
LLMStages ==
    {"character_extractor", "screenwriter", "storyboard", "sound_designer", "director"}

\* Mutant: every chunk is run with offset 0.
StartChunkWithoutOffset ==
    /\ pc = "chunks" /\ Len(chunk_states) < chunks
    /\ running' = [chunk |-> Len(chunk_states) + 1, scene_offset |-> 0]
    /\ pc' = "invoke"
    /\ UNCHANGED <<Config, WorkflowRun, chunks, chunk_states, scene_offset,
                   final_state, log, invoked, report, failure, Chunker>>

\* "for i, chunk in enumerate(chunks)": the next chunk is handed to
\* run_single_chunk together with the current scene_offset.
StartChunk ==
    /\ pc = "chunks" /\ Len(chunk_states) < chunks
    /\ running' = [chunk |-> Len(chunk_states) + 1, scene_offset |-> scene_offset]
    /\ pc' = "invoke"
    /\ UNCHANGED <<Config, WorkflowRun, chunks, chunk_states, scene_offset,
                   final_state, log, invoked, report, failure, Chunker>>

\* run_single_chunk returns: the state is appended and scene_offset advanced.
RunChunk ==
    /\ pc = "invoke"
    /\ \E final \in InvokeResults :
         /\ invoked' = Append(invoked, final)
         /\ chunk_states' =
              Append(chunk_states, run_single_chunk(final, running.scene_offset))
    /\ scene_offset' =
         scene_offset + Len(chunk_states'[Len(chunk_states')].screenplay_scenes)
    /\ running' = NoCall
    /\ pc' = "chunks"
    /\ UNCHANGED <<Config, WorkflowRun, chunks, final_state, log, report, failure,
                   Chunker>>

\* The handler's report: type(e).__name__ and str(e).
ErrorReport == {"type", "message"}

\* Mutant: the handler reports the exception and the loop goes on.
InvokeRaisesAndContinues ==
    /\ pc = "invoke"
    /\ \E stage \in LLMStages :
         failure' = [chunk |-> running.chunk, stage |-> stage]
    /\ report' = ErrorReport
    /\ pc' = "chunks"
    /\ UNCHANGED <<Config, WorkflowRun, chunks, chunk_states, scene_offset,
                   final_state, log, invoked, running, Chunker>>

\* llm.invoke raises in a stage of the running chunk: the exception leaves
\* workflow.invoke and run_single_chunk, main() reports it and exits.
InvokeRaises ==
    /\ pc = "invoke"
    /\ \E stage \in LLMStages :
         failure' = [chunk |-> running.chunk, stage |-> stage]
    /\ report' = ErrorReport
    /\ pc' = "exit"
    /\ UNCHANGED <<Config, WorkflowRun, chunks, chunk_states, scene_offset,
                   final_state, log, invoked, running, Chunker>>

\* After the loop: the only chunk's state, or the announced merge.
MergeResults ==
    /\ pc = "chunks" /\ Len(chunk_states) = chunks
    /\ IF Len(chunk_states) = 1
       THEN final_state' = chunk_states[1] /\ log' = log
       ELSE /\ log' = Append(log, "merging")
            /\ final_state' = merge_chunk_results(chunk_states)
    /\ pc' = "summary"
    /\ UNCHANGED <<Config, WorkflowRun, chunks, chunk_states, scene_offset, invoked,
                   running, report, failure, Chunker>>

NextMain == StartChunk \/ RunChunk \/ InvokeRaises \/ MergeResults

SpecMain == InitMain /\ [][NextMain]_vars

\* ------------------------------------------------------------ utils/chunker.py
\* A text is a sequence of characters. "a" stands for every character that is
\* neither whitespace, nor a sentence end, nor a divider character; "!" for the
\* sentence ends of [。！？…]; "-" for the divider characters of [-─*═=].
IsSpace(c) == c \in {"\n", " "}

\* str.strip()
RECURSIVE Strip(_)
Strip(s) ==
    IF s = <<>> THEN s
    ELSE IF IsSpace(s[1]) THEN Strip(Tail(s))
    ELSE IF IsSpace(s[Len(s)]) THEN Strip(SubSeq(s, 1, Len(s) - 1))
    ELSE s

\* The number of consecutive characters c of s from position i on.
RECURSIVE Run(_, _, _)
Run(s, i, c) ==
    IF i > Len(s) \/ s[i] # c THEN 0 ELSE 1 + Run(s, i + 1, c)

\* The length of the match of \n[-─*═=]{3,}\n that starts at position i, or 0.
DividerAt(s, i) ==
    IF s[i] = "\n" /\ Run(s, i + 1, "-") >= 3
          /\ Run(s, i + 1 + Run(s, i + 1, "-"), "\n") >= 1
    THEN Run(s, i + 1, "-") + 2
    ELSE 0

\* The length of the match of \n\n+ that starts at position i, or 0.
BreakAt(s, i) ==
    IF Run(s, i, "\n") >= 2 THEN Run(s, i, "\n") ELSE 0

\* The length of the match of the pattern that starts at position i, or 0.
MatchAt(pattern, s, i) ==
    IF pattern = "divider" THEN DividerAt(s, i) ELSE BreakAt(s, i)

\* re.split(pattern, s): the pieces between the leftmost non-overlapping
\* matches of the pattern, looked for from position i on.
RECURSIVE Split(_, _, _)
Split(pattern, s, i) ==
    IF i > Len(s) THEN <<s>>
    ELSE IF MatchAt(pattern, s, i) > 0
    THEN <<SubSeq(s, 1, i - 1)>>
           \o Split(pattern, SubSeq(s, i + MatchAt(pattern, s, i), Len(s)), 1)
    ELSE Split(pattern, s, i + 1)

\* re.split(r"(?<=[。！？…])", s): a cut after every sentence end, the end of s
\* included.
RECURSIVE SplitSentences(_, _)
SplitSentences(s, i) ==
    IF i > Len(s) THEN <<s>>
    ELSE IF s[i] = "!"
    THEN <<SubSeq(s, 1, i)>> \o SplitSentences(SubSeq(s, i + 1, Len(s)), 1)
    ELSE SplitSentences(s, i + 1)

\* "\n\n".join(parts)
RECURSIVE Join(_)
Join(parts) ==
    IF Len(parts) = 0 THEN <<>>
    ELSE IF Len(parts) = 1 THEN parts[1]
    ELSE parts[1] \o <<"\n", "\n">> \o Join(Tail(parts))

\* [chunk[i : i + chunk_size] for i in range(0, len(chunk), chunk_size)]
RECURSIVE ForceCut(_, _)
ForceCut(chunk, size) ==
    IF Len(chunk) = 0 THEN <<>>
    ELSE IF Len(chunk) <= size THEN <<chunk>>
    ELSE <<SubSeq(chunk, 1, size)>> \o ForceCut(SubSeq(chunk, size + 1, Len(chunk)), size)

\* The first loop of _split_by_sentences from its k-th sentence on.
RECURSIVE SentenceLoop(_, _, _, _, _)
SentenceLoop(sentences, k, size, chunks_, current) ==
    IF k > Len(sentences)
    THEN IF Strip(current) # <<>> THEN Append(chunks_, Strip(current)) ELSE chunks_
    ELSE IF Len(current) + Len(sentences[k]) > size /\ current # <<>>
    THEN SentenceLoop(sentences, k + 1, size,
                      Append(chunks_, Strip(current)), sentences[k])
    ELSE SentenceLoop(sentences, k + 1, size, chunks_, current \o sentences[k])

\* The second loop of _split_by_sentences from its k-th chunk on.
RECURSIVE CutLoop(_, _, _)
CutLoop(chunks_, k, size) ==
    IF k > Len(chunks_) THEN <<>>
    ELSE (IF Len(chunks_[k]) > size THEN ForceCut(chunks_[k], size) ELSE <<chunks_[k]>>)
           \o CutLoop(chunks_, k + 1, size)

\* Mutant: the text is cut every size characters, whatever its sentences.
SplitBySentencesCutOnly(s, size) == ForceCut(s, size)

\* Mutant: a chunk that is still too long is truncated.
SplitBySentencesTruncating(s, size) ==
    LET chunks_ == SentenceLoop(SplitSentences(s, 1), 1, size, <<>>, <<>>)
    IN  [k \in 1..Len(chunks_) |-> SubSeq(chunks_[k], 1, Min(size, Len(chunks_[k])))]

\* Mutant: a chunk that is still too long is kept whole.
SplitBySentencesWithoutCut(s, size) ==
    SentenceLoop(SplitSentences(s, 1), 1, size, <<>>, <<>>)

_split_by_sentences(s, size) ==
    CutLoop(SentenceLoop(SplitSentences(s, 1), 1, size, <<>>, <<>>), 1, size)

\* The loop of _split_by_paragraphs from its k-th paragraph on, and the append
\* after it.
RECURSIVE ParagraphLoop(_, _, _, _, _, _)
ParagraphLoop(paragraphs, k, size, chunks_, current_parts, current_len) ==
    IF k > Len(paragraphs)
    THEN IF current_parts # <<>> THEN Append(chunks_, Join(current_parts)) ELSE chunks_
    ELSE LET para == Strip(paragraphs[k])
         IN  IF para = <<>>
             THEN ParagraphLoop(paragraphs, k + 1, size,
                                chunks_, current_parts, current_len)
             ELSE IF Len(para) > size
             THEN ParagraphLoop(paragraphs, k + 1, size,
                    (IF current_parts # <<>>
                     THEN Append(chunks_, Join(current_parts)) ELSE chunks_)
                      \o _split_by_sentences(para, size),
                    <<>>, 0)
             ELSE IF current_len + Len(para) + 2 > size /\ current_parts # <<>>
             THEN ParagraphLoop(paragraphs, k + 1, size,
                                Append(chunks_, Join(current_parts)),
                                <<para>>, Len(para))
             ELSE ParagraphLoop(paragraphs, k + 1, size, chunks_,
                                Append(current_parts, para),
                                current_len + Len(para) + 2)

_split_by_paragraphs(s, size) ==
    ParagraphLoop(Split("break", s, 1), 1, size, <<>>, <<>>, 0)

\* The loop over the sections from the k-th section on.
RECURSIVE SectionLoop(_, _, _)
SectionLoop(sections, k, size) ==
    IF k > Len(sections) THEN <<>>
    ELSE LET section == Strip(sections[k])
         IN  (IF section = <<>> THEN <<>>
              ELSE IF Len(section) <= size THEN <<section>>
              ELSE _split_by_paragraphs(section, size))
               \o SectionLoop(sections, k + 1, size)

\* The list without the elements that repeat an earlier one.
RECURSIVE Deduplicated(_)
Deduplicated(list) ==
    IF list = <<>> THEN <<>>
    ELSE LET front == Deduplicated(SubSeq(list, 1, Len(list) - 1))
         IN  IF \E k \in 1..Len(front) : front[k] = list[Len(list)]
             THEN front ELSE Append(front, list[Len(list)])

\* Mutant: a chunk equal to an earlier chunk is dropped.
PrimaryChunksDeduplicated(stripped, size) ==
    Deduplicated(
        IF Len(Split("divider", stripped, 1)) > 1
        THEN SectionLoop(Split("divider", stripped, 1), 1, size)
        ELSE _split_by_paragraphs(stripped, size))

\* chunks before the overlap is added, for a stripped text longer than size.
PrimaryChunks(stripped, size) ==
    IF Len(Split("divider", stripped, 1)) > 1
    THEN SectionLoop(Split("divider", stripped, 1), 1, size)
    ELSE _split_by_paragraphs(stripped, size)

\* "\n\n【→ 接续段落预览】": two newlines and ten characters that are written
\* here in ASCII.
PreviewMarker ==
    <<"\n", "\n", "[", ">", " ", "j", "x", "d", "l", "y", "l", "]">>

Ellipsis == <<".", ".", ".">>

\* chunks[i + 1][:overlap]
Prefix(s, n) == SubSeq(s, 1, Min(n, Len(s)))

\* Mutant: the last chunk gets a preview too, of itself.
AddOverlapToAll(chunks_, n) ==
    [i \in 1..Len(chunks_) |->
        chunks_[i] \o PreviewMarker
          \o Prefix(chunks_[Min(i + 1, Len(chunks_))], n) \o Ellipsis]

\* The overlapped list.
AddOverlap(chunks_, n) ==
    [i \in 1..Len(chunks_) |->
        IF i < Len(chunks_)
        THEN chunks_[i] \o PreviewMarker \o Prefix(chunks_[i + 1], n) \o Ellipsis
        ELSE chunks_[i]]

\* Mutant: a short text is returned as it came.
SplitIntoChunksKeepsWhitespace(s, size, n) ==
    IF Len(Strip(s)) <= size THEN <<s>>
    ELSE IF n > 0 /\ Len(PrimaryChunks(Strip(s), size)) > 1
    THEN AddOverlap(PrimaryChunks(Strip(s), size), n)
    ELSE PrimaryChunks(Strip(s), size)

split_into_chunks(s, size, n) ==
    IF Len(Strip(s)) <= size THEN <<Strip(s)>>
    ELSE IF n > 0 /\ Len(PrimaryChunks(Strip(s), size)) > 1
    THEN AddOverlap(PrimaryChunks(Strip(s), size), n)
    ELSE PrimaryChunks(Strip(s), size)

\* The pieces a text handed to split_into_chunks is made of.
Pieces ==
    { <<"a">>, <<"!">>, <<" ">>, <<"\n", "\n">>,
      <<"\n", "-", "-", "-", "\n">> }

\* The texts of at most n pieces.
RECURSIVE Texts(_)
Texts(n) ==
    IF n = 0 THEN {<<>>}
    ELSE Texts(n - 1) \cup {s \o piece : s \in Texts(n - 1), piece \in Pieces}

\* main() calls split_into_chunks(novel_text, chunk_size, overlap).
InitSplit ==
    /\ MAX_REVISIONS = DEFAULT_MAX_REVISIONS
    /\ HUMAN_REVIEW = FALSE
    /\ config_HUMAN_REVIEW = HUMAN_REVIEW
    /\ state = build_initial_state
    /\ node = "character_extractor"
    /\ pc = "split"
    /\ prev = "START"
    /\ last_path = "none"
    /\ director_runs = 0
    /\ reviewer_calls = 0
    /\ rejections = 0
    /\ human_prompts = 0
    /\ sound_runs = 0
    /\ chunks = 1
    /\ chunk_states = <<>>
    /\ scene_offset = 0
    /\ final_state = Unassigned
    /\ log = <<>>
    /\ invoked = <<>>
    /\ parsed = TRUE
    /\ running = NoCall
    /\ report = {}
    /\ failure = NoFailure
    /\ text \in Texts(MaxPieces)
    /\ chunk_size \in 1..MaxChunkSize
    /\ overlap \in 0..MaxOverlap
    /\ result = <<>>

\* The call returns.
SplitIntoChunks ==
    /\ pc = "split"
    /\ result' = split_into_chunks(text, chunk_size, overlap)
    /\ pc' = "returned"
    /\ UNCHANGED <<Config, WorkflowRun, MainLoop, text, chunk_size, overlap>>

NextSplit == SplitIntoChunks

SpecSplit == InitSplit /\ [][NextSplit]_vars

\* ------------------------------------------- agents/director.py: the rendering
\* Longest scene list handed to _format_final_script, and the largest scene
\* number such a list carries.
MaxRendered == 2

\* The scene lists a state can hold when it is rendered: the stages store the
\* list their response parsed to, whatever its scene numbers and their order.
RenderedLists == SeqUpTo({Scene(n) : n \in 1..MaxRendered}, MaxRendered)

\* _format_final_script(state) is called on a state holding three scene lists.
InitRender ==
    /\ MAX_REVISIONS = DEFAULT_MAX_REVISIONS
    /\ HUMAN_REVIEW = FALSE
    /\ config_HUMAN_REVIEW = HUMAN_REVIEW
    /\ \E screenplay \in RenderedLists, storyboard \in RenderedLists,
          sound \in RenderedLists :
         state = [build_initial_state EXCEPT
                    !.character_sheet   = "sheet",
                    !.screenplay_scenes = screenplay,
                    !.storyboard_scenes = storyboard,
                    !.sound_scenes      = sound]
    /\ node = "director"
    /\ pc = "render"
    /\ prev = "sound_designer"
    /\ last_path = "none"
    /\ director_runs = 0
    /\ reviewer_calls = 0
    /\ rejections = 0
    /\ human_prompts = 0
    /\ sound_runs = 0
    /\ chunks = 1
    /\ chunk_states = <<>>
    /\ scene_offset = 0
    /\ final_state = Unassigned
    /\ log = <<>>
    /\ invoked = <<>>
    /\ parsed = TRUE
    /\ running = NoCall
    /\ report = {}
    /\ failure = NoFailure
    /\ text = <<>>
    /\ chunk_size = 1
    /\ overlap = 0
    /\ result = <<>>

\* The call returns the rendered script, which the caller stores in
\* final_script.
FormatFinalScript ==
    /\ pc = "render"
    /\ state' = Merge(state, [final_script |-> _format_final_script(state)])
    /\ pc' = "rendered"
    /\ UNCHANGED <<Config, node, prev, DirectorGhosts, human_prompts, sound_runs,
                   parsed, MainLoop, Chunker>>

NextRender == FormatFinalScript

SpecRender == InitRender /\ [][NextRender]_vars

\* main(): total_revisions = final_state.get("revision_count", 0), the count
\* the summary prints.
total_revisions == final_state.revision_count

\* ------------------------------------------- main.py: run_single_chunk, call by call
\* main() and generate_script call run_single_chunk(chunk, novel_type,
\* scene_offset) once per chunk; here the runs are followed node by node, the
\* state of the run that returned staying in place until the next call. The
\* ghost counters count within the run in progress.

\* The ceilings explored: a run's first review is forced, or its second is.
RunsCeilings == {0, 1}

InitRuns ==
    /\ MAX_REVISIONS \in RunsCeilings
    /\ HUMAN_REVIEW \in BOOLEAN
    /\ config_HUMAN_REVIEW = HUMAN_REVIEW
    /\ state = build_initial_state
    /\ node = "END"
    /\ pc = "idle"
    /\ prev = "START"
    /\ last_path = "none"
    /\ director_runs = 0
    /\ reviewer_calls = 0
    /\ rejections = 0
    /\ human_prompts = 0
    /\ sound_runs = 0
    /\ chunks = MaxChunks
    /\ chunk_states = <<>>
    /\ scene_offset = 0
    /\ final_state = Unassigned
    /\ log = <<>>
    /\ invoked = <<>>
    /\ parsed = TRUE
    /\ running = NoCall
    /\ report = {}
    /\ failure = NoFailure
    /\ text = <<>>
    /\ chunk_size = 1
    /\ overlap = 0
    /\ result = <<>>

\* Mutant: the run goes on from the state the previous run returned.
CallRunSingleChunkReusingState ==
    /\ pc = "idle" /\ running.chunk < chunks
    /\ \E offset \in 0..MaxScenes :
         running' = [chunk |-> running.chunk + 1, scene_offset |-> offset]
    /\ state' = IF running.chunk = 0 THEN build_initial_state ELSE state
    /\ node' = "character_extractor"
    /\ pc' = "workflow"
    /\ prev' = "START"
    /\ last_path' = "none"
    /\ director_runs' = 0
    /\ reviewer_calls' = 0
    /\ rejections' = 0
    /\ human_prompts' = 0
    /\ sound_runs' = 0
    /\ parsed' = TRUE
    /\ UNCHANGED <<Config, chunks, chunk_states, scene_offset, final_state, log,
                   invoked, report, failure, Chunker>>

\* initial_state = build_initial_state(novel_text, novel_type), and
\* workflow.invoke(initial_state) enters the graph at character_extractor.
CallRunSingleChunk ==
    /\ pc = "idle" /\ running.chunk < chunks
    /\ \E offset \in 0..MaxScenes :
         running' = [chunk |-> running.chunk + 1, scene_offset |-> offset]
    /\ state' = build_initial_state
    /\ node' = "character_extractor"
    /\ pc' = "workflow"
    /\ prev' = "START"
    /\ last_path' = "none"
    /\ director_runs' = 0
    /\ reviewer_calls' = 0
    /\ rejections' = 0
    /\ human_prompts' = 0
    /\ sound_runs' = 0
    /\ parsed' = TRUE
    /\ UNCHANGED <<Config, chunks, chunk_states, scene_offset, final_state, log,
                   invoked, report, failure, Chunker>>

\* workflow.invoke returned: the scene numbers are offset and the state is
\* returned to the caller.
ReturnRunSingleChunk ==
    /\ pc = "workflow" /\ node = "END"
    /\ state' = run_single_chunk(state, running.scene_offset)
    /\ pc' = "idle"
    /\ UNCHANGED <<Config, node, prev, DirectorGhosts, human_prompts, sound_runs,
                   parsed, MainLoop, Chunker>>

NextRuns ==
    \/ CallRunSingleChunk
    \/ CharacterExtractor
    \/ Screenwriter
    \/ Storyboard
    \/ SoundDesigner
    \/ HumanReviewer
    \/ Director
    \/ ReturnRunSingleChunk

SpecRuns == InitRuns /\ [][NextRuns]_vars

\* ---------------------------------------------------- app.py: generate_script
\* The web front end: app.py has imported main, and with it graph.py and the
\* agents, under whatever HUMAN_REVIEW the environment named; a request then
\* calls generate_script, which runs the chunks one by one.
InitWeb ==
    /\ MAX_REVISIONS \in RunsCeilings
    /\ HUMAN_REVIEW \in BOOLEAN
    /\ config_HUMAN_REVIEW = HUMAN_REVIEW
    /\ state = build_initial_state
    /\ node = "END"
    /\ pc = "web"
    /\ prev = "START"
    /\ last_path = "none"
    /\ director_runs = 0
    /\ reviewer_calls = 0
    /\ rejections = 0
    /\ human_prompts = 0
    /\ sound_runs = 0
    /\ chunks = MaxChunks
    /\ chunk_states = <<>>
    /\ scene_offset = 0
    /\ final_state = Unassigned
    /\ log = <<>>
    /\ invoked = <<>>
    /\ parsed = TRUE
    /\ running = NoCall
    /\ report = {}
    /\ failure = NoFailure
    /\ text = <<>>
    /\ chunk_size = 1
    /\ overlap = 0
    /\ result = <<>>

\* config.HUMAN_REVIEW = False: the attribute of the config module is set; the
\* names graph.py and human_reviewer.py imported keep their value.
GenerateScript ==
    /\ pc = "web"
    /\ config_HUMAN_REVIEW' = FALSE
    /\ pc' = "idle"
    /\ UNCHANGED <<MAX_REVISIONS, HUMAN_REVIEW, WorkflowRun, MainLoop, Chunker>>

NextWeb == GenerateScript \/ NextRuns

SpecWeb == InitWeb /\ [][NextWeb]_vars

\* ================================================================== claims
\* C1: director_node is executed at most MAX_REVISIONS + 1 times in a segment
\* run, for every ceiling and every sequence of reviewer decisions, human
\* decisions and parse failures.
C1_DirectorAtMostCeilingPlusOne == director_runs <= MAX_REVISIONS + 1

\* A run that used all MAX_REVISIONS + 1 director executions and ended.
C1_Witness ==
    node = "END" /\ MAX_REVISIONS >= 1 /\ director_runs = MAX_REVISIONS + 1

\* C2: every segment run eventually reaches END, whatever the reviewer and the
\* human decide and however many responses fail to parse, provided every
\* pending stage step is eventually taken.
C2_EventuallyEnd == <>(node = "END")

\* A run that reached END after a draft parse failure, a director rejection
\* and a director parse failure.
C2_Witness ==
    /\ node = "END"
    /\ rejections >= 1
    /\ last_path = "parse_failure"
    /\ state.screenplay_scenes = <<PlaceholderScene>>

\* C3 (as claimed): in every state in which the run has reached END,
\* is_approved is true.
C3_EndOnlyWhenApproved == node = "END" => state.is_approved

\* C4 (as claimed): in every state in which the run has reached END, the final
\* state's final_script is not None.
C4_FinalScriptAtEnd == node = "END" => state.final_script.present

C6_ForcedIffPreIncrementExceeds ==
    [][node = "director" =>
         ((last_path' = "forced") <=> (state.revision_count > MAX_REVISIONS))]_vars

\* C6 (amended): director_node increments revision_count and then takes the
\* forced-approval path if and only if the incremented count exceeds the
\* ceiling (the count before the increment is at least the ceiling); on every
\* other path the reviewer is consulted exactly once, on the forced path not
\* at all.
C6_ForcedIffIncrementedExceeds ==
    [][node = "director" =>
         /\ state'.revision_count = state.revision_count + 1
         /\ (last_path' = "forced") <=> (state.revision_count + 1 > MAX_REVISIONS)
         /\ (last_path' = "forced") <=> (state.revision_count >= MAX_REVISIONS)
         /\ reviewer_calls' =
              IF last_path' = "forced" THEN reviewer_calls ELSE reviewer_calls + 1]_vars

\* A forced approval taken with the count before the increment equal to the
\* ceiling, not above it.
C6_Witness ==
    /\ prev = "director"
    /\ last_path = "forced"
    /\ MAX_REVISIONS >= 1
    /\ state.revision_count - 1 = MAX_REVISIONS

\* C7: on the forced-approval path director_node does not call the reviewer
\* and returns revision_target = approved, is_approved = true, an empty
\* director_feedback and the rendered final_script; the run goes to END and
\* main() completes without an error.
C7_ForcedApprovalPath ==
    last_path = "forced" =>
        /\ reviewer_calls = director_runs - 1
        /\ state.revision_target = "approved"
        /\ state.is_approved
        /\ state.director_feedback = <<>>
        /\ state.final_script.present
        /\ state.final_script = _format_final_script(state)
        /\ node = "END"
        /\ pc # "TypeError"

\* A forced approval that followed a rejection and was saved by main().
C7_Witness ==
    /\ last_path = "forced"
    /\ rejections >= 1
    /\ pc = "done"

\* C8: revision_count starts at 0, increases by exactly 1 on every director_node
\* execution (on each of its four return paths) and is left unchanged by every
\* other step.
C8_RevisionCountSteps ==
    /\ state.revision_count = 0
    /\ [][state'.revision_count =
            IF node = "director"
            THEN state.revision_count + 1 ELSE state.revision_count]_vars

\* A run whose director rejected, then approved on a parse failure.
C8_Witness ==
    /\ node = "END"
    /\ last_path = "parse_failure"
    /\ rejections = 1
    /\ state.revision_count = 2

\* C9 (as claimed): director_feedback is non-empty only when revision_target
\* is not 'approved'.
C9_FeedbackOnlyWhenNotApproved ==
    state.director_feedback # <<>> => state.revision_target # "approved"

\* The draft stages by revision priority, highest first.
Priority == <<"screenwriter", "storyboard", "sound_designer">>

\* C10: when the reviewer rejects with feedback naming more than one draft
\* stage, revision_target is the named stage of highest priority
\* (screenwriter > storyboard > sound_designer) whatever the order of the
\* items, and the graph routes to exactly that stage.
C10_PriorityTieBreak ==
    (/\ prev = "director"
     /\ last_path = "revise"
     /\ Cardinality(Targets(state.director_feedback) \cap DraftStages) >= 2)
    => \E i \in 1..3 :
         /\ Priority[i] \in Targets(state.director_feedback)
         /\ \A j \in 1..(i - 1) : Priority[j] \notin Targets(state.director_feedback)
         /\ state.revision_target = Priority[i]
         /\ node = Priority[i]

\* Feedback naming the sound designer first and the storyboard second, and
\* not the screenwriter, was routed to the storyboard.
C10_Witness ==
    /\ prev = "director"
    /\ state.director_feedback = <<Feedback("sound_designer"), Feedback("storyboard")>>
    /\ state.revision_target = "storyboard"
    /\ node = "storyboard"


\* C11: the draft stages run in the fixed order screenwriter, storyboard,
\* sound_designer: whichever stage a rejection re-enters, every stage
\* downstream of it runs before the next human_reviewer or director
\* execution, and director is never entered from screenwriter or storyboard.
C11_DownstreamChain ==
    /\ prev = "screenwriter" => node = "storyboard"
    /\ prev = "storyboard" => node = "sound_designer"
    /\ node = "human_reviewer" => prev = "sound_designer"
    /\ node = "director" => prev \in {"sound_designer", "human_reviewer"}

\* A director rejection re-entered storyboard, and sound_designer is next.
C11_Witness ==
    /\ prev = "storyboard"
    /\ node = "sound_designer"
    /\ state.revision_target = "storyboard"
    /\ rejections >= 1

\* C12: no step of a segment run sets skip_human_review back to false, so it
\* changes from false to true at most once.
C12_SkipMonotone ==
    [][state.skip_human_review => state'.skip_human_review]_vars

\* A run in which the flag, set by a human rejection, outlived a director
\* rejection and the run's end.
C12_Witness ==
    /\ node = "END"
    /\ state.skip_human_review
    /\ rejections >= 1
    /\ human_prompts = 1

\* C13 (as claimed): the human review prompt is shown at most once per
\* segment run.
C13_PromptAtMostOnce == human_prompts <= 1

\* C14: after every sound_designer execution the next stage is human_reviewer
\* exactly when the checkpoint is enabled and skip_human_review is false, and
\* director otherwise; human_reviewer is never the next stage while the
\* checkpoint is disabled or consumed.
C14_RouteAfterSound ==
    /\ prev = "sound_designer" =>
         node = IF HUMAN_REVIEW /\ ~state.skip_human_review
                THEN "human_reviewer" ELSE "director"
    /\ node = "human_reviewer" => HUMAN_REVIEW /\ ~state.skip_human_review

\* sound_designer ran with the checkpoint enabled but consumed, and director
\* is next.
C14_Witness ==
    /\ prev = "sound_designer"
    /\ node = "director"
    /\ HUMAN_REVIEW
    /\ state.skip_human_review

C16_ExtractorOnlyFirst ==
    /\ node = "character_extractor" <=> prev = "START"
    /\ prev # "START" => state.character_sheet # "None"

\* A run that ended after a human rejection and two director rejections that
\* named a draft stage.
C16_Witness ==
    /\ node = "END"
    /\ human_prompts >= 1
    /\ state.skip_human_review
    /\ rejections >= 2


\* The three scene lists of a WorkflowState.
SceneKeys == {"screenplay_scenes", "storyboard_scenes", "sound_scenes"}

\* The screenplay scene counts of the first n of the given states, summed.
RECURSIVE ScreenplayCount(_, _)
ScreenplayCount(states, n) ==
    IF n = 0 THEN 0
    ELSE ScreenplayCount(states, n - 1) + Len(states[n].screenplay_scenes)

\* C17 (as claimed): the merged screenplay's scene numbers are 1, 2, ... up to
\* the total screenplay scene count, without gap or duplicate, whatever the
\* segments' runs returned.
C17_MergedNumbersConsecutive ==
    (pc = "summary" /\ chunks >= 2) =>
        \A k \in 1..Len(final_state.screenplay_scenes) :
            final_state.screenplay_scenes[k].scene_number = k

\* C18: segment i's lists are the lists its run returned with the screenplay
\* scene counts of segments 1..i-1, summed, added to every scene_number of all
\* three lists, so two scenes of a segment carry the same number after the
\* offset exactly if they did before; the running offset is the sum over the
\* segments processed so far.
C18_OffsetIsPrefixSum ==
    /\ scene_offset = ScreenplayCount(invoked, Len(invoked))
    /\ Len(chunk_states) = Len(invoked)
    /\ \A i \in 1..Len(chunk_states) :
         /\ \A key \in SceneKeys :
              /\ Len(chunk_states[i][key]) = Len(invoked[i][key])
              /\ \A k \in 1..Len(invoked[i][key]) :
                   chunk_states[i][key][k].scene_number =
                     invoked[i][key][k].scene_number
                       + ScreenplayCount(invoked, i - 1)
         /\ \A key1, key2 \in SceneKeys :
              \A a \in 1..Len(invoked[i][key1]), b \in 1..Len(invoked[i][key2]) :
                 (invoked[i][key1][a].scene_number = invoked[i][key2][b].scene_number)
                   <=> (chunk_states[i][key1][a].scene_number
                          = chunk_states[i][key2][b].scene_number)

\* A second segment with a storyboard longer than its screenplay, renumbered
\* by a positive offset.
C18_Witness ==
    /\ Len(chunk_states) >= 2
    /\ Len(invoked[1].screenplay_scenes) >= 1
    /\ Len(invoked[2].screenplay_scenes) < Len(invoked[2].storyboard_scenes)
    /\ Len(invoked[2].sound_scenes) >= 1

\* The given lists, joined in order.
RECURSIVE Flatten(_)
Flatten(lists) ==
    IF lists = <<>> THEN <<>>
    ELSE Flatten(SubSeq(lists, 1, Len(lists) - 1)) \o lists[Len(lists)]

\* C19: the state merged from two or more segment states has, for each of the
\* three scene lists, the segments' lists joined in segment order; it is
\* approved with revision_target 'approved' whatever the segments' flags are,
\* carries the first segment's character_sheet, and its final_script is
\* rendered from the merged lists.
C19_MergedState ==
    (pc = "summary" /\ chunks >= 2) =>
        /\ \A key \in SceneKeys :
             final_state[key] =
               Flatten([i \in 1..Len(chunk_states) |-> chunk_states[i][key]])
        /\ Len(final_state.screenplay_scenes)
             = ScreenplayCount(chunk_states, Len(chunk_states))
        /\ final_state.is_approved
        /\ final_state.revision_target = "approved"
        /\ final_state.character_sheet = chunk_states[1].character_sheet
        /\ final_state.final_script.present
        /\ final_state.final_script.count = Len(final_state.screenplay_scenes)
        /\ \A k \in 1..Len(final_state.screenplay_scenes) :
             final_state.final_script.scenes[k].scene_number
               = final_state.screenplay_scenes[k].scene_number

\* A merge of an approved first segment with an unapproved second one whose
\* character sheet differs.
C19_Witness ==
    /\ pc = "summary"
    /\ chunks >= 2
    /\ chunk_states[1].is_approved
    /\ ~chunk_states[2].is_approved
    /\ chunk_states[1].character_sheet # chunk_states[2].character_sheet
    /\ Len(final_state.screenplay_scenes) >= 2

\* The three scene lists of the state differ in length.
LengthMismatch(s) ==
    \/ Len(s.storyboard_scenes) # Len(s.screenplay_scenes)
    \/ Len(s.sound_scenes) # Len(s.screenplay_scenes)

\* C20 (as claimed): when a merged segment's three scene lists differ in
\* length, the merge step has reported it: its output holds a message beyond
\* the announcement of the merge.
C20_MismatchDiagnosed ==
    (/\ pc = "summary"
     /\ chunks >= 2
     /\ \E i \in 1..Len(chunk_states) : LengthMismatch(chunk_states[i]))
        => \E k \in 1..Len(log) : log[k] # "merging"


\* C21: a chunk's run is started only when every earlier chunk's state has
\* been appended and its screenplay scene count added to scene_offset; chunks
\* are started in input order and no call is in progress outside the loop
\* body.
C21_ChunksInOrder ==
    /\ pc = "invoke" =>
         /\ running.chunk = Len(chunk_states) + 1
         /\ Len(invoked) = Len(chunk_states)
         /\ running.scene_offset = ScreenplayCount(invoked, running.chunk - 1)
    /\ pc \in {"chunks", "summary"} => running = NoCall

\* The second chunk's run is in progress, started with a positive offset.
C21_Witness ==
    /\ pc = "invoke"
    /\ running.chunk = 2
    /\ running.scene_offset >= 1

\* C28: when the response of character_extractor, screenwriter, storyboard or
\* sound_designer does not parse, the stage writes its placeholder (the empty
\* character sheet, or one scene carrying the diagnostic) and the run goes on
\* with the next stage of the chain.
C28_ParseFailurePlaceholder ==
    ~parsed =>
        /\ prev \in {"character_extractor"} \cup DraftStages => pc = "workflow"
        /\ prev = "character_extractor" =>
             state.character_sheet = "empty_sheet" /\ node = "screenwriter"
        /\ prev = "screenwriter" =>
             /\ Len(state.screenplay_scenes) = 1
             /\ state.screenplay_scenes[1].diagnostic
             /\ node = "storyboard"
        /\ prev = "storyboard" =>
             /\ Len(state.storyboard_scenes) = 1
             /\ state.storyboard_scenes[1].diagnostic
             /\ node = "sound_designer"
        /\ prev = "sound_designer" =>
             /\ Len(state.sound_scenes) = 1
             /\ state.sound_scenes[1].diagnostic
             /\ node \in {"human_reviewer", "director"}

\* The screenwriter's response did not parse in a revision round, and
\* storyboard is next.
C28_Witness ==
    /\ ~parsed
    /\ prev = "screenwriter"
    /\ node = "storyboard"
    /\ state.revision_count >= 1

\* C29: once an LLM call has raised in a chunk's run, main() is at its exit:
\* only the earlier chunks' states exist, no final state was assigned, no
\* merge was announced, and no further step is taken.
C29_FailureHalts ==
    /\ [](failure # NoFailure =>
            /\ pc = "exit"
            /\ Len(chunk_states) = failure.chunk - 1
            /\ final_state = Unassigned
            /\ log = <<>>)
    /\ [][pc # "exit"]_vars

\* The LLM call of the director raised in the second chunk's run, after the
\* first chunk had completed.
C29_Witness ==
    /\ pc = "exit"
    /\ failure = [chunk |-> 2, stage |-> "director"]
    /\ Len(chunk_states) = 1

\* C30 (as claimed): the error report of a run stopped by a raised exception
\* names the segment and the stage that were executing.
C30_ReportNamesSegmentAndStage ==
    pc = "exit" => {"segment", "stage"} \subseteq report


\* Where the preview marker starts in the chunk, or 0.
MarkerStart(chunk) ==
    LET starts == {i \in 1..Len(chunk) :
                     /\ i + Len(PreviewMarker) - 1 <= Len(chunk)
                     /\ SubSeq(chunk, i, i + Len(PreviewMarker) - 1) = PreviewMarker}
    IN  IF starts = {} THEN 0 ELSE CHOOSE i \in starts : \A j \in starts : i <= j

\* The chunk's text before its preview marker.
PrimaryText(chunk) ==
    IF MarkerStart(chunk) = 0 THEN chunk ELSE SubSeq(chunk, 1, MarkerStart(chunk) - 1)

\* The primary texts of the first n returned chunks, concatenated.
RECURSIVE PrimaryTexts(_)
PrimaryTexts(n) ==
    IF n = 0 THEN <<>> ELSE PrimaryTexts(n - 1) \o PrimaryText(result[n])

\* The characters of s that are neither whitespace nor divider characters.
Content(s) == SelectSeq(s, LAMBDA c : c \notin {"\n", " ", "-"})

\* C22: a text no longer than chunk_size comes back as one chunk: the text
\* without its leading and trailing whitespace, without a preview marker,
\* whatever the overlap.
C22_ShortTextOneChunk ==
    (pc = "returned" /\ Len(text) <= chunk_size) =>
        /\ Len(result) = 1
        /\ MarkerStart(result[1]) = 0
        /\ \E i, j \in 0..Len(text) :
             /\ i + j <= Len(text)
             /\ result[1] = SubSeq(text, i + 1, Len(text) - j)
             /\ \A k \in 1..Len(text) :
                  (k <= i \/ k > Len(text) - j) => text[k] \in {"\n", " "}
             /\ result[1] # <<>> =>
                  /\ result[1][1] \notin {"\n", " "}
                  /\ result[1][Len(result[1])] \notin {"\n", " "}

\* A short text that starts with a paragraph break, split with an overlap.
C22_Witness ==
    /\ pc = "returned"
    /\ Len(text) <= chunk_size
    /\ Len(text) >= 3
    /\ text[1] = "\n"
    /\ overlap > 0
    /\ result[1] # <<>>

\* C23 (as claimed): the primary texts of the returned chunks, concatenated in
\* order, are the text handed in.
C23_RoundTripExact ==
    pc = "returned" => PrimaryTexts(Len(result)) = text

\* C23 (amended): the primary texts, concatenated in order, hold the text's
\* characters other than whitespace and divider characters, in the same order.
C23_RoundTripContent ==
    pc = "returned" => Content(PrimaryTexts(Len(result))) = Content(text)

\* A text cut at a divider line and inside a long paragraph.
C23_Witness ==
    /\ pc = "returned"
    /\ Len(result) >= 3
    /\ \E i \in 1..Len(text) : text[i] = "-"
    /\ \E i \in 1..Len(result) : Len(PrimaryText(result[i])) = chunk_size
    /\ PrimaryTexts(Len(result)) # text

\* C24 (as claimed): no returned chunk is longer than chunk_size.
C24_ChunkWithinSize ==
    pc = "returned" => \A i \in 1..Len(result) : Len(result[i]) <= chunk_size


\* The first n characters of s, or all of s if it has fewer.
FirstChars(s, n) == SubSeq(s, 1, IF Len(s) < n THEN Len(s) ELSE n)

\* C25 (as claimed): with several chunks and a positive overlap, every chunk
\* but the last is its primary text, the preview marker and exactly `overlap`
\* characters, the first ones of the next chunk's primary text, and nothing
\* more; the last chunk has no marker, and with overlap 0 no chunk has one.
C25_PreviewIsOverlapChars ==
    pc = "returned" =>
        \A i \in 1..Len(result) :
            IF i < Len(result) /\ overlap > 0
            THEN /\ MarkerStart(result[i]) > 0
                 /\ Len(PrimaryText(result[i + 1])) >= overlap
                 /\ result[i] = PrimaryText(result[i]) \o PreviewMarker
                                  \o SubSeq(PrimaryText(result[i + 1]), 1, overlap)
            ELSE MarkerStart(result[i]) = 0

\* C25 (amended): with several chunks and a positive overlap, every chunk but
\* the last is its primary text, the preview marker, the first `overlap`
\* characters of the next chunk's primary text (all of it if it is shorter)
\* and a closing "..."; the last chunk has no marker, and with overlap 0 no
\* chunk has one.
C25_PreviewThenEllipsis ==
    pc = "returned" =>
        \A i \in 1..Len(result) :
            IF i < Len(result) /\ overlap > 0
            THEN /\ MarkerStart(result[i]) > 0
                 /\ result[i] = PrimaryText(result[i]) \o PreviewMarker
                                  \o FirstChars(PrimaryText(result[i + 1]), overlap)
                                  \o <<".", ".", ".">>
            ELSE MarkerStart(result[i]) = 0

\* Three chunks split with overlap 2, the second shorter than the overlap.
C25_Witness ==
    /\ pc = "returned"
    /\ overlap = 2
    /\ Len(result) = 3
    /\ Len(PrimaryText(result[2])) = 1
    /\ MarkerStart(result[1]) > 0
    /\ MarkerStart(result[3]) = 0

\* Whether the characters of a occur in b in the same order.
RECURSIVE IsSubsequence(_, _)
IsSubsequence(a, b) ==
    IF a = <<>> THEN TRUE
    ELSE IF b = <<>> THEN FALSE
    ELSE IF a[1] = b[1] THEN IsSubsequence(Tail(a), Tail(b))
    ELSE IsSubsequence(a, Tail(b))

\* C26: the chunks keep the order of the text: their primary texts, one after
\* the other, are found in the text in that order, and none of the text's
\* characters other than whitespace and divider characters is missing, so no
\* chunk was moved or dropped as a repetition of another.
C26_InputOrderKept ==
    pc = "returned" =>
        /\ IsSubsequence(PrimaryTexts(Len(result)), text)
        /\ Len(Content(PrimaryTexts(Len(result)))) = Len(Content(text))

\* A text returned as two equal chunks and a different one.
C26_Witness ==
    /\ pc = "returned"
    /\ Len(result) >= 3
    /\ \E i, j, k \in 1..Len(result) :
         /\ i < j
         /\ PrimaryText(result[i]) = PrimaryText(result[j])
         /\ PrimaryText(result[k]) # PrimaryText(result[i])

\* C27 (as claimed), scaled to 5 characters, chunk_size 2 and overlap 1: a
\* text without divider characters comes back as 3 chunks whose primary texts
\* total 5 characters.
C27_FiveCharsThreeChunks ==
    (/\ pc = "returned"
     /\ Len(text) = 5 /\ chunk_size = 2 /\ overlap = 1
     /\ \A i \in 1..Len(text) : text[i] # "-")
        => /\ Len(result) = 3
           /\ Len(PrimaryTexts(Len(result))) = 5

\* C27 (amended): a text longer than chunk_size that holds no whitespace, no
\* sentence end and no divider character comes back, under a positive
\* overlap, as Len(text) / chunk_size chunks, rounded up, whose primary texts
\* total Len(text) characters: 3 chunks for 5 characters and chunk_size 2.
C27_PlainTextCutBySize ==
    (/\ pc = "returned"
     /\ overlap > 0
     /\ Len(text) > chunk_size
     /\ \A i \in 1..Len(text) : text[i] = "a")
        => /\ Len(result) = (Len(text) + chunk_size - 1) \div chunk_size
           /\ Len(PrimaryTexts(Len(result))) = Len(text)

\* Five plain characters split with chunk_size 2 and overlap 1.
C27_Witness ==
    /\ pc = "returned"
    /\ Len(text) = 5 /\ chunk_size = 2 /\ overlap = 1
    /\ \A i \in 1..Len(text) : text[i] = "a"
    /\ Len(result) = 3

\* C31: the rendered script shows the screenplay scenes in ascending order of
\* scene number, each of them once, and a scene carries a storyboard or a
\* sound record exactly when that list holds a record with its number.
C31_RenderedAscendingOnce ==
    pc = "rendered" =>
        LET rendered == state.final_script.scenes
        IN  /\ Len(rendered) = Len(state.screenplay_scenes)
            /\ \A i, j \in 1..Len(rendered) :
                 i < j => rendered[i].scene_number < rendered[j].scene_number
            /\ \A k \in 1..Len(state.screenplay_scenes) :
                 Cardinality({i \in 1..Len(rendered) :
                    rendered[i].scene_number
                      = state.screenplay_scenes[k].scene_number}) = 1
            /\ \A i \in 1..Len(rendered) :
                 /\ rendered[i].storyboard =
                      (\E k \in 1..Len(state.storyboard_scenes) :
                         state.storyboard_scenes[k].scene_number
                           = rendered[i].scene_number)
                 /\ rendered[i].sound =
                      (\E k \in 1..Len(state.sound_scenes) :
                         state.sound_scenes[k].scene_number
                           = rendered[i].scene_number)

\* The director_node executions of the given runs together: each run's
\* revision_count, which every director_node execution increases by one.
RECURSIVE DirectorExecutions(_)
DirectorExecutions(states) ==
    IF states = <<>> THEN 0
    ELSE states[1].revision_count + DirectorExecutions(Tail(states))

\* C32: the iteration count main() reports once all chunks are processed is
\* the number of director_node executions of all chunks' runs together.
C32_ReportedIterationsAreTotal ==
    pc = "summary" => total_revisions = DirectorExecutions(invoked)

\* C33: director_feedback is empty right after every director_node execution
\* that approves (the reviewer's approval, the forced approval, the approval
\* on an unparsable response) and right after a human_reviewer_node execution
\* in which the human, shown the prompt, approves.
C33_FeedbackClearedOnAccept ==
    [][ /\ (pc = "workflow" /\ node = "director"
              /\ last_path' \in {"approve", "forced", "parse_failure"})
           => state'.director_feedback = <<>>
        /\ (pc = "workflow" /\ node = "human_reviewer" /\ ShowsPrompt(state)
              /\ state'.human_review_target = "director")
           => state'.director_feedback = <<>> ]_vars

\* The reviewer approves a run whose previous round it rejected with feedback.
C33_Witness ==
    /\ prev = "director"
    /\ last_path = "approve"
    /\ rejections >= 1
    /\ director_runs >= 2
    /\ state.director_feedback = <<>>

\* The state's keys other than the given one are the same before and after
\* the step.
OnlyKeyChanges(key) ==
    \A k \in DOMAIN state \ {key} : state'[k] = state[k]

\* C34: a step of character_extractor changes no key but character_sheet, a
\* step of screenwriter none but screenplay_scenes, of storyboard none but
\* storyboard_scenes, of sound_designer none but sound_scenes; no step of the
\* run changes novel_text or novel_type, and none changes character_sheet
\* once the character extractor has run.
C34_SparseUpdates ==
    [][ pc = "workflow" =>
          /\ node = "character_extractor" => OnlyKeyChanges("character_sheet")
          /\ node = "screenwriter" => OnlyKeyChanges("screenplay_scenes")
          /\ node = "storyboard" => OnlyKeyChanges("storyboard_scenes")
          /\ node = "sound_designer" => OnlyKeyChanges("sound_scenes")
          /\ state'.novel_text = state.novel_text
          /\ state'.novel_type = state.novel_type
          /\ prev # "START" => state'.character_sheet = state.character_sheet ]_vars

\* The screenwriter has rewritten its scenes after a rejection, with the
\* storyboards and sounds of the previous round still in the state.
C34_Witness ==
    /\ prev = "screenwriter"
    /\ director_runs >= 1
    /\ state.character_sheet = "sheet"
    /\ state.storyboard_scenes # <<>>
    /\ state.sound_scenes # <<>>
    /\ state.director_feedback # <<>>

\* C35: a director_node execution whose response does not parse approves:
\* is_approved is set, revision_target is "approved", director_feedback is
\* empty, final_script is the rendering of the state it read, revision_count
\* is one more than before, the run ends, and no rejection is counted.
C35_ParseFailureApproves ==
    [][ (pc = "workflow" /\ node = "director" /\ last_path' = "parse_failure") =>
          /\ state'.is_approved
          /\ state'.revision_target = "approved"
          /\ state'.director_feedback = <<>>
          /\ state'.final_script.present
          /\ state'.final_script = _format_final_script(state)
          /\ state'.revision_count = state.revision_count + 1
          /\ node' = "END"
          /\ rejections' = rejections ]_vars

\* The reviewer's second answer of a run, after a rejection, did not parse.
C35_Witness ==
    /\ last_path = "parse_failure"
    /\ prev = "director"
    /\ director_runs >= 2
    /\ rejections >= 1
    /\ node = "END"
    /\ state.is_approved

\* The units of a stripped paragraph that the splitter may or may not divide:
\* the paragraph itself if it fits into size, else its sentences; n is the
\* number of characters other than whitespace and divider characters, whole
\* says that the unit fits into size.
ParagraphUnits(para, size) ==
    IF Len(para) <= size
    THEN <<[n |-> Len(Content(para)), whole |-> TRUE]>>
    ELSE LET sentences == SplitSentences(para, 1)
         IN  [k \in 1..Len(sentences) |->
                [ n     |-> Len(Content(sentences[k])),
                  whole |-> Len(Strip(sentences[k])) <= size ]]

\* The units of the paragraphs from the k-th on.
RECURSIVE ParagraphsUnits(_, _, _)
ParagraphsUnits(paragraphs, k, size) ==
    IF k > Len(paragraphs) THEN <<>>
    ELSE ParagraphUnits(Strip(paragraphs[k]), size)
           \o ParagraphsUnits(paragraphs, k + 1, size)

\* The units of the sections from the k-th on.
RECURSIVE SectionsUnits(_, _, _)
SectionsUnits(sections, k, size) ==
    IF k > Len(sections) THEN <<>>
    ELSE ParagraphsUnits(Split("break", Strip(sections[k]), 1), 1, size)
           \o SectionsUnits(sections, k + 1, size)

\* The units of the text handed to split_into_chunks, in text order.
TextUnits == SectionsUnits(Split("divider", Strip(text), 1), 1, chunk_size)

\* The characters (other than whitespace and divider characters) of the first
\* k of the units.
RECURSIVE UnitsEnd(_, _)
UnitsEnd(units, k) == IF k = 0 THEN 0 ELSE UnitsEnd(units, k - 1) + units[k].n

\* The same count for the primary texts of the first k returned chunks, for
\* every k.
RECURSIVE ChunkEndsFrom(_, _)
ChunkEndsFrom(k, before) ==
    IF k > Len(result) THEN {}
    ELSE LET end == before + Len(Content(PrimaryText(result[k])))
         IN  {end} \cup ChunkEndsFrom(k + 1, end)

ChunkEnds == ChunkEndsFrom(1, 0)

\* Some returned chunk ends inside the u-th of the units.
EndsInside(units, ends, u) ==
    \E end \in ends : UnitsEnd(units, u - 1) < end /\ end < UnitsEnd(units, u)

\* The units that fit into chunk_size are not divided.
WholeUnitsKept(units, ends) ==
    \A u \in 1..Len(units) : units[u].whole => ~EndsInside(units, ends, u)

\* C36: no returned chunk ends inside a paragraph that fits into chunk_size,
\* nor inside a sentence that fits into chunk_size of a paragraph that does
\* not: a chunk ends inside a unit only where a single sentence longer than
\* chunk_size is cut.
C36_OnlyLongSentencesCut ==
    (pc = "returned" /\ Len(result) > 1) => WholeUnitsKept(TextUnits, ChunkEnds)

\* A long sentence is cut next to a unit that is kept whole.
CutBesideWhole(units, ends) ==
    \E u, v \in 1..Len(units) :
        /\ units[u].whole /\ units[u].n >= 2
        /\ ~units[v].whole
        /\ EndsInside(units, ends, v)

\* A paragraph of a short sentence and a longer one: the first is kept whole,
\* the second cut.
C36_Witness ==
    /\ pc = "returned"
    /\ Len(result) >= 3
    /\ CutBesideWhole(TextUnits, ChunkEnds)

\* C37: every run_single_chunk call starts its run from build_initial_state,
\* whatever the previous run returned: revision_count 0, skip_human_review
\* off, no scenes, no feedback, not approved. So in every run revision_count
\* is the number of that run's director_node executions, at most
\* MAX_REVISIONS + 1, and with the human review on the run's first visit of
\* human_reviewer finds the checkpoint open.
C37_FreshStatePerRun ==
    /\ [][ (pc = "idle" /\ pc' = "workflow") =>
             /\ state' = build_initial_state
             /\ state'.revision_count = 0
             /\ ~state'.skip_human_review
             /\ ~state'.is_approved
             /\ state'.screenplay_scenes = <<>>
             /\ state'.storyboard_scenes = <<>>
             /\ state'.sound_scenes = <<>>
             /\ state'.director_feedback = <<>> ]_vars
    /\ [](pc = "workflow" =>
             /\ state.revision_count = director_runs
             /\ director_runs <= MAX_REVISIONS + 1
             /\ (node = "human_reviewer" /\ human_prompts = 0)
                   => ShowsPrompt(state))

\* A second run that is rejected by the human and by the reviewer, as the
\* first may have been.
C37_Witness ==
    /\ running.chunk = 2
    /\ pc = "workflow"
    /\ human_prompts >= 1
    /\ state.skip_human_review
    /\ last_path = "revise"
    /\ director_runs = MAX_REVISIONS
    /\ MAX_REVISIONS >= 1

\* C38: when a step of director or of human_reviewer hands the run to
\* screenwriter, storyboard or sound_designer, director_feedback holds an item
\* whose target_agent is that stage.
C38_RejectionTargetHasFeedback ==
    [][ (pc = "workflow" /\ node \in {"director", "human_reviewer"}
           /\ node' \in DraftStages)
          => \E i \in 1..Len(state'.director_feedback) :
               state'.director_feedback[i].target_agent = node' ]_vars

\* The reviewer sent the run back to the storyboard with a feedback list that
\* names the sound designer first.
C38_Witness ==
    /\ prev = "director"
    /\ node = "storyboard"
    /\ Len(state.director_feedback) = 2
    /\ state.director_feedback[1].target_agent = "sound_designer"
    /\ state.director_feedback[2].target_agent = "storyboard"

\* C39: a human rejection leaves revision_count alone and closes the human
\* checkpoint, which stays closed, so a run has at most one; sound_designer
\* therefore executes at most MAX_REVISIONS + 2 times in a run: once at first,
\* once after the human rejection and once after each of the at most
\* MAX_REVISIONS rejections by the director.
C39_SoundDesignerRunsBounded ==
    /\ [](sound_runs <= MAX_REVISIONS + 2)
    /\ [](sound_runs <= 1 + rejections + (IF state.skip_human_review THEN 1 ELSE 0))
    /\ [](rejections <= MAX_REVISIONS)
    /\ [][ (pc = "workflow" /\ node = "human_reviewer" /\ node' \in DraftStages) =>
             /\ state'.revision_count = state.revision_count
             /\ ~state.skip_human_review
             /\ state'.skip_human_review ]_vars
    /\ [][ state.skip_human_review => state'.skip_human_review ]_vars

\* sound_designer has executed MAX_REVISIONS + 2 times: the human rejected once
\* and the director at every review it was consulted for.
C39_Witness ==
    /\ MAX_REVISIONS >= 1
    /\ sound_runs = MAX_REVISIONS + 2
    /\ rejections = MAX_REVISIONS
    /\ state.skip_human_review
    /\ node = "END"

\* C40: once generate_script has switched the human review off, no run it
\* starts reaches human_reviewer and no prompt is shown, whatever HUMAN_REVIEW
\* was when the modules were loaded.
C40_WebRunNeverAsksHuman ==
    pc # "web" =>
        /\ ~config_HUMAN_REVIEW
        /\ node # "human_reviewer"
        /\ prev # "human_reviewer"
        /\ human_prompts = 0

==============================================================================
